---- MODULE Spec2Model ----
(***************************************************************************)
(* Model of counterpartycli/client.py: the signing and broadcast flow      *)
(* (sign_tx) and the market normalizer functions (format_order, ...).      *)
(*                                                                         *)
(* Python text (str) is a sequence of one-character strings.  A value      *)
(* whose Python type matters (str against bytes) is a record               *)
(* [type |-> "str" | "bytes" | "NoneType", val |-> <sequence>].            *)
(***************************************************************************)
EXTENDS Integers, Sequences, FiniteSets, TLC

\* ------------------------------------------------------------------------
\* Bounds of the model
\* ------------------------------------------------------------------------
MaxKeyLen == 2
MaxToolCalls == 2
MaxBroadcasts == 2

\* ------------------------------------------------------------------------
\* Python values
\* ------------------------------------------------------------------------
PyStr(s) == [type |-> "str", val |-> s]
PyBytes(s) == [type |-> "bytes", val |-> s]
PyNone == [type |-> "NoneType", val |-> <<>>]
PyInt(n) == [type |-> "int", val |-> n]
PyBool(b) == [type |-> "bool", val |-> b]

NoError == [type |-> "None", msg |-> ""]
\* What a call produced: a value, or an exception.
Ok(v) == [ok |-> TRUE, val |-> v, err |-> NoError]
Err(e) == [ok |-> FALSE, val |-> PyNone, err |-> e]

\* Python ==: a str never equals a bytes object, whatever the contents.
PyEq(a, b) == a.type = b.type /\ a.val = b.val

\* bytes.decode('utf-8') of ASCII content: same characters, type str.
decode(b) == PyStr(b.val)

\* s[:-1]
DropLast(s) == IF s.val = <<>> THEN s ELSE [s EXCEPT !.val = SubSeq(s.val, 1, Len(s.val) - 1)]

SeqsUpTo(S, n) == UNION {[1..k -> S] : k \in 0..n}

\* ------------------------------------------------------------------------
\* Python str ordering (code points, a proper prefix sorts first)
\* ------------------------------------------------------------------------
UpperCase ==
    <<"A", "B", "C", "D", "E", "F", "G", "H", "I", "J", "K", "L", "M",
      "N", "O", "P", "Q", "R", "S", "T", "U", "V", "W", "X", "Y", "Z">>
CodePoint(c) == 64 + (CHOOSE k \in 1..Len(UpperCase) : UpperCase[k] = c)

RECURSIVE StrLt(_, _)
StrLt(a, b) ==
    IF a = <<>> THEN b # <<>>
    ELSE IF b = <<>> THEN FALSE
    ELSE IF Head(a) = Head(b) THEN StrLt(Tail(a), Tail(b))
    ELSE CodePoint(Head(a)) < CodePoint(Head(b))

\* ------------------------------------------------------------------------
\* decimal.Decimal: a coefficient (decimal digits, most significant first)
\* and an exponent; the value is coefficient * 10^exp.
\* ------------------------------------------------------------------------
\* Precision of the default decimal context.
DecimalPrec == 28

Dec(ds, e) == [digits |-> ds, exp |-> e]
Zeros(k) == [j \in 1..k |-> 0]

RECURSIVE DigitsOf(_)
DigitsOf(n) == IF n < 10 THEN <<n>> ELSE DigitsOf(n \div 10) \o <<n % 10>>

RECURSIVE StripLeading(_)
StripLeading(ds) ==
    IF Len(ds) > 1 /\ ds[1] = 0 THEN StripLeading(Tail(ds)) ELSE ds

IsZeroDigits(ds) == \A k \in 1..Len(ds) : ds[k] = 0

\* D(n) for an int n >= 0
D(n) == Dec(DigitsOf(n), 0)

\* Value of a short digit sequence as a number.
RECURSIVE NumOf(_)
NumOf(ds) == IF ds = <<>> THEN 0 ELSE NumOf(SubSeq(ds, 1, Len(ds) - 1)) * 10 + ds[Len(ds)]

\* divmod(ds, m) for a digit sequence ds and a small positive int m.
RECURSIVE DivRec(_, _, _, _, _)
DivRec(ds, m, k, r, acc) ==
    IF k > Len(ds) THEN [q |-> StripLeading(acc), r |-> r]
    ELSE DivRec(ds, m, k + 1, (r * 10 + ds[k]) % m,
                Append(acc, (r * 10 + ds[k]) \div m))
DivMod(ds, m) == DivRec(ds, m, 1, 0, <<>>)

\* ds + 1
RECURSIVE IncDigits(_)
IncDigits(ds) ==
    IF ds = <<>> THEN <<1>>
    ELSE IF ds[Len(ds)] < 9
         THEN [ds EXCEPT ![Len(ds)] = @ + 1]
         ELSE IncDigits(SubSeq(ds, 1, Len(ds) - 1)) \o <<0>>

\* Drop trailing zeros of the coefficient while the exponent is below ideal.
RECURSIVE TowardsIdeal(_, _)
TowardsIdeal(d, ideal) ==
    IF d.exp < ideal /\ Len(d.digits) > 1 /\ d.digits[Len(d.digits)] = 0
    THEN TowardsIdeal(Dec(SubSeq(d.digits, 1, Len(d.digits) - 1), d.exp + 1), ideal)
    ELSE d

\* Decimal._fix: round the coefficient to prec digits, ROUND_HALF_EVEN.
Fix(d, prec) ==
    IF Len(d.digits) <= prec THEN d
    ELSE LET kept == SubSeq(d.digits, 1, prec)
             dropped == SubSeq(d.digits, prec + 1, Len(d.digits))
             rest == Tail(dropped)
             up == \/ dropped[1] > 5
                   \/ dropped[1] = 5 /\ ~IsZeroDigits(rest)
                   \/ dropped[1] = 5 /\ IsZeroDigits(rest) /\ kept[prec] % 2 = 1
             e == d.exp + Len(dropped)
             inc == IncDigits(kept)
         IN  IF ~up THEN Dec(kept, e)
             ELSE IF Len(inc) > prec THEN Dec(SubSeq(inc, 1, prec), e + 1)
             ELSE Dec(inc, e)

DivisionByZero == [type |-> "decimal.DivisionByZero", msg |-> "x / 0"]
InvalidOperation == [type |-> "decimal.InvalidOperation", msg |-> "0 / 0"]

\* Decimal.__truediv__ under the default context, for operands D(n), D(m).
\* The result is a value or one of the exceptions the context traps.
DecDiv(a, b) ==
    IF IsZeroDigits(b.digits)
    THEN IF IsZeroDigits(a.digits) THEN Err(InvalidOperation) ELSE Err(DivisionByZero)
    ELSE IF IsZeroDigits(a.digits) THEN Ok(Dec(<<0>>, a.exp - b.exp))
    ELSE LET shift == Len(b.digits) - Len(a.digits) + DecimalPrec + 1
             dm == DivMod(a.digits \o Zeros(shift), NumOf(b.digits))
             e == a.exp - b.exp - shift
             coeff == IF dm.r # 0
                      THEN (IF dm.q[Len(dm.q)] % 5 = 0 THEN IncDigits(dm.q) ELSE dm.q)
                      ELSE dm.q
             raw == IF dm.r # 0 THEN Dec(coeff, e)
                    ELSE TowardsIdeal(Dec(coeff, e), a.exp - b.exp)
         IN  Ok(Fix(raw, DecimalPrec))

\* ------------------------------------------------------------------------
\* Names bound in the module namespace of client.py (imports and top-level
\* definitions).  A name outside this set raises NameError when evaluated.
\* ------------------------------------------------------------------------
ModuleGlobals ==
    {"os", "sys", "argparse", "decimal", "logging", "time", "dateutil",
     "calendar", "configparser", "binascii", "string", "urlencode",
     "appdirs", "PrettyTable", "ColoredFormatter", "util", "messages",
     "wallet", "APP_VERSION", "add_config_arguments", "generate_config_files",
     "config", "script", "make_id", "BET_TYPE_NAME", "BET_TYPE_ID", "dhash",
     "log", "isodt", "APP_NAME", "D", "logger", "CONFIG_ARGS",
     "ConfigurationError", "InputError"}

NameErrorOf(name) == [type |-> "NameError", msg |-> name]

\* raise exceptions.TransactionError(msg): the expression is evaluated first,
\* so an unbound `exceptions` raises NameError instead.
RaiseTransactionError(msg) ==
    IF "exceptions" \in ModuleGlobals
    THEN [type |-> "TransactionError", msg |-> msg]
    ELSE NameErrorOf("exceptions")

\* ------------------------------------------------------------------------
\* Inputs and collaborators of sign_tx
\* ------------------------------------------------------------------------
\* Source addresses: two single-signature addresses and a multisig one
\* (multisig addresses are written 1_addrA_addrB_2).
Addresses == { <<"A">>, <<"B">>, <<"1", "_", "A", "_", "B", "_", "2">> }

\* script.is_multisig: the address has more than one '_'-separated part.
is_multisig(address) == \E k \in 1..Len(address) : address[k] = "_"

UnsignedTxs == { <<"0", "1">>, <<"0", "2">> }

\* Answers the operator can type at the confirmation prompt.
Answers == { <<"y">>, <<>>, <<"n">>, <<"Y">>, <<"y", "e", "s">> }

\* script.b58_digits
b58_digits ==
    {"1", "2", "3", "4", "5", "6", "7", "8", "9",
     "A", "B", "C", "D", "E", "F", "G", "H", "J", "K", "L", "M", "N", "P",
     "Q", "R", "S", "T", "U", "V", "W", "X", "Y", "Z",
     "a", "b", "c", "d", "e", "f", "g", "h", "i", "j", "k", "m", "n", "o",
     "p", "q", "r", "s", "t", "u", "v", "w", "x", "y", "z"}

\* Characters the operator can type at the private-key prompt.
KeyChars == {"K", "5", "!", "0"}
Keys == SeqsUpTo(KeyChars, MaxKeyLen)

\* wallet.is_mine(source) answers
IsMineResults == BOOLEAN
\* wallet.sign_raw_transaction(unsigned) results: signed serialisations
WalletSignResults(unsigned) == { <<"a", "1">>, <<"a", "2">> }
\* wallet.send_raw_transaction(signed) results: transaction identifiers
TxIds == { <<"a", "b", "c", "1", "2", "3">>, <<"d", "e", "f">> }
WalletError == [type |-> "WalletError", msg |-> "wallet"]
NetworkError == [type |-> "NetworkError", msg |-> "rejected"]
\* subprocess.check_output raises when pybtctool exits with a non-zero
\* status or cannot be started.
ToolError == [type |-> "CalledProcessError", msg |-> "pybtctool"]

\* Standard output of `pybtctool sign tx i key`: a line of text as bytes.
\* The tool is external: it may print a signed transaction or the
\* transaction it was given.
ToolOutputs(unsigned) ==
    { unsigned, unsigned \o <<"\n">>, <<"b", "1", "\n">>, <<"b", "2", "\n">> }

\* ------------------------------------------------------------------------
\* Market normalizer: format_order
\* ------------------------------------------------------------------------
BTC == <<"B", "T", "C">>
XCP == <<"X", "C", "P">>
XCPX == <<"X", "C", "P", "X">>
Assets == {BTC, XCP, XCPX}
Quantities == {0, 3, 50, 100}

\* Rows of util.api('get_orders', {'status': 'open'})
Orders ==
    [give_asset : Assets, get_asset : Assets,
     give_quantity : Quantities, get_quantity : Quantities,
     expire_index : {10}, tx_hash : {<<"f", "0">>}]

\* Results of the blocks query of last_db_block_index
BlockResults == { <<>>, <<[block_index |-> 7]>>, <<[block_index |-> 12], [block_index |-> 11]>> }

last_db_block_index(results) ==
    IF results = <<>> THEN 0 ELSE results[1].block_index

\* util.value_out(quantity, 'price'): the price is reported as the ratio
\* it is given.
value_out_price(quantity) == quantity

\* Variant of format_order: the two branches divide the other way round.
format_order_Inverted(order, results) ==
    LET give_asset == order.give_asset
        get_asset == order.get_asset
        ask == StrLt(get_asset, give_asset)
        quotient == IF ask
                    THEN DecDiv(D(order.give_quantity), D(order.get_quantity))
                    ELSE DecDiv(D(order.get_quantity), D(order.give_quantity))
        price_assets == IF ask
                        THEN get_asset \o <<"/">> \o give_asset \o <<" ", "a", "s", "k">>
                        ELSE give_asset \o <<"/">> \o get_asset \o <<" ", "b", "i", "d">>
    IN  IF ~quotient.ok THEN Err(quotient.err)
        ELSE Ok([give_asset |-> give_asset,
                 price |-> value_out_price(quotient.val),
                 price_assets |-> price_assets,
                 time_left |-> order.expire_index - last_db_block_index(results),
                 tx_hash |-> order.tx_hash])

\* Variant of format_order: only the ask branch divides get by give; the
\* bid branch does too.
format_order_SameRatio(order, results) ==
    LET give_asset == order.give_asset
        get_asset == order.get_asset
        ask == StrLt(get_asset, give_asset)
        quotient == DecDiv(D(order.get_quantity), D(order.give_quantity))
        price_assets == IF ask
                        THEN get_asset \o <<"/">> \o give_asset \o <<" ", "a", "s", "k">>
                        ELSE give_asset \o <<"/">> \o get_asset \o <<" ", "b", "i", "d">>
    IN  IF ~quotient.ok THEN Err(quotient.err)
        ELSE Ok([give_asset |-> give_asset,
                 price |-> value_out_price(quotient.val),
                 price_assets |-> price_assets,
                 time_left |-> order.expire_index - last_db_block_index(results),
                 tx_hash |-> order.tx_hash])

\* Lines 110-125.  The entry keeps the fields client.py computes itself:
\* asset, price, price label, time left, hash.  The result is the entry or
\* the exception raised by the division.
format_order(order, results) ==
    LET give_asset == order.give_asset
        get_asset == order.get_asset
        ask == StrLt(get_asset, give_asset)
        quotient == IF ask
                    THEN DecDiv(D(order.get_quantity), D(order.give_quantity))
                    ELSE DecDiv(D(order.give_quantity), D(order.get_quantity))
        price_assets == IF ask
                        THEN get_asset \o <<"/">> \o give_asset \o <<" ", "a", "s", "k">>
                        ELSE give_asset \o <<"/">> \o get_asset \o <<" ", "b", "i", "d">>
    IN  IF ~quotient.ok THEN Err(quotient.err)
        ELSE Ok([give_asset |-> give_asset,
                 price |-> value_out_price(quotient.val),
                 price_assets |-> price_assets,
                 time_left |-> order.expire_index - last_db_block_index(results),
                 tx_hash |-> order.tx_hash])

\* Python truth value of None or a str
Truthy(v) == v.type # "NoneType" /\ v.val # <<>>

\* --give-asset / --get-asset of the market action
Filters == {PyNone, PyStr(BTC)}

\* ------------------------------------------------------------------------
\* Market normalizer: format_order_match, format_bet, format_feed
\* ------------------------------------------------------------------------
\* Transaction hashes of the two orders of a match
MatchHashes == {<<"a", "a">>, <<"b", "b">>}
\* Rows of util.api('get_order_matches', ...)
OrderMatches ==
    [tx0_hash : MatchHashes, tx1_hash : MatchHashes, match_expire_index : {20}]

\* make_id of counterpartylib (imported at line 29).  client.py documents
\* the identifier as the concatenation of the hashes of the two
\* transactions (lines 448 and 508); the library joins them with '_'.
make_id(hash_1, hash_2) == hash_1 \o <<"_">> \o hash_2

\* Variant of format_order_match: the hashes are passed the other way round.
format_order_match_Swapped(order_match, results) ==
    [order_match_id |-> make_id(order_match.tx1_hash, order_match.tx0_hash),
     order_match_time_left |-> order_match.match_expire_index - last_db_block_index(results)]

\* Lines 141-144.
format_order_match(order_match, results) ==
    [order_match_id |-> make_id(order_match.tx0_hash, order_match.tx1_hash),
     order_match_time_left |-> order_match.match_expire_index - last_db_block_index(results)]

\* BET_TYPE_NAME of counterpartylib (imported at line 29)
BET_TYPE_NAME == [t \in 0..3 |-> <<"BullCFD", "BearCFD", "Equal", "NotEqual">>[t + 1]]

\* isodt of counterpartylib (imported at line 31): the ISO 8601 text of a
\* Unix time.  The text is kept as the time it spells.
isodt(epoch_time) == [type |-> "str", iso |-> epoch_time]

\* Rows of util.api('get_bets', {'status': 'open'})
LeverageUnit == 5040
Bets ==
    [bet_type : {0, 2}, feed_address : {<<"A">>}, deadline : {1000},
     target_value : {0, 7}, leverage : {0, LeverageUnit, 7560},
     wager_quantity : {0, 2}, counterwager_quantity : {0, 3},
     expire_index : {10}, tx_hash : {<<"f", "1">>}]

\* util.value_out(quantity, 'leverage') and util.value_out(quantity, 'odds'):
\* the ratio is reported as it is given.
value_out_leverage(quantity) == quantity
value_out_odds(quantity) == quantity

\* Variant of format_bet: the leverage is always divided, the target value
\* always reported.
format_bet_NoSentinels(bet, results) ==
    LET odds == DecDiv(D(bet.counterwager_quantity), D(bet.wager_quantity))
        target_value == PyInt(bet.target_value)
        quotient == DecDiv(D(bet.leverage), D(LeverageUnit))
    IN  IF ~odds.ok THEN Err(odds.err)
        ELSE IF ~quotient.ok THEN Err(quotient.err)
        ELSE Ok([bet_type |-> BET_TYPE_NAME[bet.bet_type],
                 feed_address |-> bet.feed_address,
                 deadline |-> isodt(bet.deadline),
                 target_value |-> target_value,
                 leverage |-> [type |-> "Decimal", val |-> value_out_leverage(quotient.val)],
                 odds |-> value_out_odds(odds.val),
                 time_left |-> bet.expire_index - last_db_block_index(results),
                 tx_hash |-> bet.tx_hash])

\* Lines 127-139.  The entry keeps the fields client.py computes itself
\* (the wager text is left out).  The result is the entry or the exception
\* raised by the division of the odds.
format_bet(bet, results) ==
    LET odds == DecDiv(D(bet.counterwager_quantity), D(bet.wager_quantity))
        target_value == IF bet.target_value = 0 THEN PyNone ELSE PyInt(bet.target_value)
        quotient == DecDiv(D(bet.leverage), D(LeverageUnit))
        leverage == IF bet.leverage = 0 THEN PyNone
                    ELSE [type |-> "Decimal", val |-> value_out_leverage(quotient.val)]
    IN  IF ~odds.ok THEN Err(odds.err)
        ELSE IF bet.leverage # 0 /\ ~quotient.ok THEN Err(quotient.err)
        ELSE Ok([bet_type |-> BET_TYPE_NAME[bet.bet_type],
                 feed_address |-> bet.feed_address,
                 deadline |-> isodt(bet.deadline),
                 target_value |-> target_value,
                 leverage |-> leverage,
                 odds |-> value_out_odds(odds.val),
                 time_left |-> bet.expire_index - last_db_block_index(results),
                 tx_hash |-> bet.tx_hash])

\* config.TWO_WEEKS, in seconds
TWO_WEEKS == 1209600
\* time.time() when market starts
StartTime == 2000000
\* D(1e8), the divisor of the fee fraction
FeeUnit == 100000000

FeedSources == {<<"A">>, <<"B">>}
\* Broadcast times around the edge of the window at StartTime: one second
\* too old, exactly two weeks old, two seconds younger.
FeedTimestamps == {StartTime - TWO_WEEKS - 1, StartTime - TWO_WEEKS, StartTime - TWO_WEEKS + 2}
Locked == <<"<", "L", "o", "c", "k", "e", "d", ">">>
\* Rows of util.api('get_broadcasts', ...).  The feed of A is locked (its
\* text is empty), the feed of B carries a text.
Broadcasts ==
    {b \in [source : FeedSources, timestamp : FeedTimestamps, text : {<<>>, <<"t">>},
            value : {0}, fee_fraction_int : {5000000}] :
        b.text = <<>> <=> b.source = <<"A">>}

\* Lines 146-152.
format_feed(feed) ==
    LET timestamp == isodt(feed.timestamp)
        text == IF feed.text = <<>> THEN Locked ELSE feed.text
        fee == DecDiv(D(feed.fee_fraction_int), D(FeeUnit))
    IN  IF ~fee.ok THEN Err(fee.err)
        ELSE Ok([source |-> feed.source, timestamp |-> timestamp, text |-> text,
                 value |-> feed.value, fee_fraction |-> fee.val])

\* ------------------------------------------------------------------------
\* set_options: the config module attributes it assigns
\* ------------------------------------------------------------------------
\* A constant of counterpartylib's config module, known by its name.
PyConst(name) == [type |-> "const", val |-> name]
\* Python truth value of None or an int
TruthyInt(v) == v.type # "NoneType" /\ v.val # 0

\* config.DEFAULT_RPC_PORT, config.DEFAULT_RPC_PORT_TESTNET,
\* config.DEFAULT_BACKEND_PORT, config.DEFAULT_BACKEND_PORT_TESTNET
DEFAULT_RPC_PORT == 4000
DEFAULT_RPC_PORT_TESTNET == 14000
DEFAULT_BACKEND_PORT == 8332
DEFAULT_BACKEND_PORT_TESTNET == 18332

ConfigFields ==
    {"TESTNET", "TESTCOIN", "COUNTERPARTY_RPC_PORT", "COUNTERPARTY_RPC_PASSWORD",
     "WALLET_PORT", "WALLET_PASSWORD",
     "MAGIC_BYTES", "ADDRESSVERSION", "BLOCK_FIRST", "BURN_START", "BURN_END",
     "UNSPENDABLE"}
BundleFields ==
    {"MAGIC_BYTES", "ADDRESSVERSION", "BLOCK_FIRST", "BURN_START", "BURN_END",
     "UNSPENDABLE"}
\* No attribute assigned yet.
ConfigUnset == [f \in ConfigFields |-> PyNone]

PortError == [type |-> "Exception", msg |-> "counterparty-rpc-port"]
ConfigurationError(msg) == [type |-> "ConfigurationError", msg |-> msg]

\* Command-line values of the options set_options reads.
PortArgs == {PyNone, PyInt(1)}
WalletPortArgs == {PyInt(8000), PyInt(65535)}
PasswordArgs == {PyNone, PyStr(<<"p", "w">>)}
OptionArgs ==
    [testnet : BOOLEAN, testcoin : BOOLEAN,
     counterparty_rpc_port : PortArgs, counterparty_rpc_password : PasswordArgs,
     wallet_port : WalletPortArgs, wallet_password : PasswordArgs]

\* A variant that takes the burn window of testnet from the other TESTCOIN
\* setting.
NetworkBundle_Mixed(c) ==
    IF c.TESTNET.val
    THEN [c EXCEPT !.MAGIC_BYTES = PyConst("MAGIC_BYTES_TESTNET"),
                   !.ADDRESSVERSION = PyConst("ADDRESSVERSION_TESTNET"),
                   !.BLOCK_FIRST = PyConst(IF c.TESTCOIN.val THEN "BLOCK_FIRST_TESTNET_TESTCOIN"
                                           ELSE "BLOCK_FIRST_TESTNET"),
                   !.BURN_START = PyConst("BURN_START_TESTNET"),
                   !.BURN_END = PyConst("BURN_END_TESTNET_TESTCOIN"),
                   !.UNSPENDABLE = PyConst("UNSPENDABLE_TESTNET")]
    ELSE [c EXCEPT !.MAGIC_BYTES = PyConst("MAGIC_BYTES_MAINNET"),
                   !.ADDRESSVERSION = PyConst("ADDRESSVERSION_MAINNET"),
                   !.BLOCK_FIRST = PyConst(IF c.TESTCOIN.val THEN "BLOCK_FIRST_MAINNET_TESTCOIN"
                                           ELSE "BLOCK_FIRST_MAINNET"),
                   !.BURN_START = PyConst(IF c.TESTCOIN.val THEN "BURN_START_MAINNET_TESTCOIN"
                                          ELSE "BURN_START_MAINNET"),
                   !.BURN_END = PyConst(IF c.TESTCOIN.val THEN "BURN_END_MAINNET_TESTCOIN"
                                        ELSE "BURN_END_MAINNET"),
                   !.UNSPENDABLE = PyConst("UNSPENDABLE_MAINNET")]

\* Lines 362-390: the network parameters for (TESTNET, TESTCOIN).
NetworkBundle(c) ==
    IF c.TESTNET.val
    THEN IF c.TESTCOIN.val
         THEN [c EXCEPT !.MAGIC_BYTES = PyConst("MAGIC_BYTES_TESTNET"),
                        !.ADDRESSVERSION = PyConst("ADDRESSVERSION_TESTNET"),
                        !.BLOCK_FIRST = PyConst("BLOCK_FIRST_TESTNET_TESTCOIN"),
                        !.BURN_START = PyConst("BURN_START_TESTNET_TESTCOIN"),
                        !.BURN_END = PyConst("BURN_END_TESTNET_TESTCOIN"),
                        !.UNSPENDABLE = PyConst("UNSPENDABLE_TESTNET")]
         ELSE [c EXCEPT !.MAGIC_BYTES = PyConst("MAGIC_BYTES_TESTNET"),
                        !.ADDRESSVERSION = PyConst("ADDRESSVERSION_TESTNET"),
                        !.BLOCK_FIRST = PyConst("BLOCK_FIRST_TESTNET"),
                        !.BURN_START = PyConst("BURN_START_TESTNET"),
                        !.BURN_END = PyConst("BURN_END_TESTNET"),
                        !.UNSPENDABLE = PyConst("UNSPENDABLE_TESTNET")]
    ELSE IF c.TESTCOIN.val
         THEN [c EXCEPT !.MAGIC_BYTES = PyConst("MAGIC_BYTES_MAINNET"),
                        !.ADDRESSVERSION = PyConst("ADDRESSVERSION_MAINNET"),
                        !.BLOCK_FIRST = PyConst("BLOCK_FIRST_MAINNET_TESTCOIN"),
                        !.BURN_START = PyConst("BURN_START_MAINNET_TESTCOIN"),
                        !.BURN_END = PyConst("BURN_END_MAINNET_TESTCOIN"),
                        !.UNSPENDABLE = PyConst("UNSPENDABLE_MAINNET")]
         ELSE [c EXCEPT !.MAGIC_BYTES = PyConst("MAGIC_BYTES_MAINNET"),
                        !.ADDRESSVERSION = PyConst("ADDRESSVERSION_MAINNET"),
                        !.BLOCK_FIRST = PyConst("BLOCK_FIRST_MAINNET"),
                        !.BURN_START = PyConst("BURN_START_MAINNET"),
                        !.BURN_END = PyConst("BURN_END_MAINNET"),
                        !.UNSPENDABLE = PyConst("UNSPENDABLE_MAINNET")]

\* Lines 291 and 335: the accepted port range.
ValidPort(p) == p > 1 /\ p < 65535

\* Lines 255-390.  The result is the config module as set_options leaves it
\* and the exception it raised, if any: what was assigned before a raise
\* stays assigned.
set_options(o, c0) ==
    LET c1 == [c0 EXCEPT !.TESTNET = PyBool(o.testnet), !.TESTCOIN = PyBool(o.testcoin)]
        rpc_port == IF TruthyInt(o.counterparty_rpc_port) THEN o.counterparty_rpc_port.val
                    ELSE IF c1.TESTNET.val THEN DEFAULT_RPC_PORT_TESTNET
                    ELSE DEFAULT_RPC_PORT
        c2 == [c1 EXCEPT !.COUNTERPARTY_RPC_PORT = PyInt(rpc_port)]
        c3 == [c2 EXCEPT !.COUNTERPARTY_RPC_PASSWORD = o.counterparty_rpc_password]
        wallet_port == IF TruthyInt(o.wallet_port) THEN o.wallet_port.val
                       ELSE IF c3.TESTNET.val THEN DEFAULT_BACKEND_PORT_TESTNET
                       ELSE DEFAULT_BACKEND_PORT
        c4 == [c3 EXCEPT !.WALLET_PORT = PyInt(wallet_port)]
        c5 == [c4 EXCEPT !.WALLET_PASSWORD = o.wallet_password]
    IN  IF ~ValidPort(rpc_port)
        THEN [cfg |-> c2, err |-> PortError]
        ELSE IF ~Truthy(o.counterparty_rpc_password)
        THEN [cfg |-> c2, err |-> ConfigurationError("counterparty RPC password not set")]
        ELSE IF ~ValidPort(wallet_port)
        THEN [cfg |-> c4, err |-> ConfigurationError("wallet-port")]
        ELSE IF ~Truthy(o.wallet_password)
        THEN [cfg |-> c4, err |-> ConfigurationError("wallet RPC password not set")]
        ELSE [cfg |-> NetworkBundle(c5), err |-> NoError]

\* messages.compose(args.action, args): the unsigned transaction, or an
\* error of the composition.
ComposeError == [type |-> "ComposeError", msg |-> "compose"]

\* ------------------------------------------------------------------------
\* State
\* ------------------------------------------------------------------------
VARIABLES
    mpc,                \* position inside main
    help,               \* args.help
    options,            \* the options main hands to set_options
    unsigned,           \* args.unsigned
    arg_source,         \* args.source
    cfg,                \* attributes of the config module
    main_raised,        \* exception that left main before the action ran
    n_set_options,      \* how many times set_options has been called
    unsigned_hex,       \* local of main: what messages.compose returned
    action,             \* args.action: "send" (a message) or "market"
    order_match,        \* market: the pending order match being formatted
    bet,                \* market: the open bet being formatted
    broadcasts,         \* market: the rows of get_broadcasts
    clock,              \* the time time.time() returned last
    examined,           \* market: time.time() of each feed loop iteration so far
    seen_addresses,     \* market: feed addresses already shown
    table,              \* market: rows of the Feeds table
    npc,                \* position inside market
    give_filter,        \* argument give_asset of market
    get_filter,         \* argument get_asset of market
    order,              \* raw order of the current iteration, or PyNone
    row,                \* what the current iteration did with it
    pc,                 \* position inside sign_tx
    unsigned_tx_hex,    \* argument of sign_tx
    source,             \* argument of sign_tx
    answer,             \* what input('Sign and broadcast? (y/N) ') returned
    private_key_wif,    \* local of sign_tx
    i,                  \* local of sign_tx
    tx_hex,             \* local of sign_tx
    signed_tx_hex,      \* local of sign_tx
    tx_hash,            \* local of sign_tx
    calls,              \* collaborator invocations, in order
    logged,             \* logger.info records, in order
    raised              \* exception that left sign_tx, or NoError

signVars == <<pc, unsigned_tx_hex, source, answer, private_key_wif, i, tx_hex,
              signed_tx_hex, tx_hash, calls, logged, raised>>

Call(op, arg, res) == [op |-> op, arg |-> arg, res |-> res]
Log(msg, arg) == [msg |-> msg, arg |-> arg]

NumCalls(op) == Cardinality({k \in 1..Len(calls) : calls[k].op = op})
Invoked(op) == \E k \in 1..Len(calls) : calls[k].op = op
NumToolCalls == NumCalls("pybtctool")

feedVars == <<broadcasts, clock, examined, seen_addresses, table>>
marketVars == <<npc, give_filter, get_filter, order_match, order, bet, row, feedVars>>
mainVars == <<mpc, help, options, unsigned, arg_source, cfg, main_raised,
              n_set_options, unsigned_hex>>

NoRow == [kind |-> "none", res |-> Ok(PyNone)]

SignInit ==
    /\ pc = "idle"
    /\ unsigned_tx_hex = PyNone
    /\ source = <<>>
    /\ answer = PyNone
    /\ private_key_wif = PyNone
    /\ i = PyNone
    /\ tx_hex = PyNone
    /\ signed_tx_hex = PyNone
    /\ tx_hash = PyNone
    /\ calls = <<>>
    /\ logged = <<>>
    /\ raised = NoError

\* ------------------------------------------------------------------------
\* sign_tx, one action per step between two collaborator calls
\* ------------------------------------------------------------------------

\* Variant of MultisigCheck: the confirmation prompt is reached for every
\* source (`if` in place of `elif` at line 223).
MultisigCheck_FallsThrough ==
    /\ pc = "start"
    /\ IF is_multisig(source)
       THEN logged' = logged \o <<Log("unsigned", unsigned_tx_hex),
                                  Log("multisig", PyNone)>>
       ELSE logged' = logged \o <<Log("unsigned", unsigned_tx_hex)>>
    /\ pc' = "confirm"
    /\ UNCHANGED <<action, marketVars, mainVars>>
    /\ UNCHANGED <<unsigned_tx_hex, source, answer, private_key_wif, i, tx_hex,
                   signed_tx_hex, tx_hash, calls, raised>>

\* Lines 218-223: log the unsigned transaction, test for multisig.
MultisigCheck ==
    /\ pc = "start"
    /\ IF is_multisig(source)
       THEN /\ logged' = logged \o <<Log("unsigned", unsigned_tx_hex),
                                     Log("multisig", PyNone)>>
            /\ pc' = "done"
       ELSE /\ logged' = logged \o <<Log("unsigned", unsigned_tx_hex)>>
            /\ pc' = "confirm"
    /\ UNCHANGED <<action, marketVars, mainVars>>
    /\ UNCHANGED <<unsigned_tx_hex, source, answer, private_key_wif, i, tx_hex,
                   signed_tx_hex, tx_hash, calls, raised>>

\* Variant of Confirm: yes is the default (anything but 'n' proceeds).
Confirm_DefaultYes ==
    /\ pc = "confirm"
    /\ \E a \in Answers :
        /\ answer' = PyStr(a)
        /\ calls' = Append(calls, Call("input_confirm", PyNone, Ok(PyStr(a))))
        /\ pc' = IF ~PyEq(PyStr(a), PyStr(<<"n">>)) THEN "is_mine" ELSE "done"
    /\ UNCHANGED <<action, marketVars, mainVars>>
    /\ UNCHANGED <<unsigned_tx_hex, source, private_key_wif, i, tx_hex,
                   signed_tx_hex, tx_hash, logged, raised>>

\* Line 223: elif input('Sign and broadcast? (y/N) ') == 'y'
Confirm ==
    /\ pc = "confirm"
    /\ \E a \in Answers :
        /\ answer' = PyStr(a)
        /\ calls' = Append(calls, Call("input_confirm", PyNone, Ok(PyStr(a))))
        /\ pc' = IF PyEq(PyStr(a), PyStr(<<"y">>)) THEN "is_mine" ELSE "done"
    /\ UNCHANGED <<action, marketVars, mainVars>>
    /\ UNCHANGED <<unsigned_tx_hex, source, private_key_wif, i, tx_hex,
                   signed_tx_hex, tx_hash, logged, raised>>

\* Line 224: if wallet.is_mine(source)
IsMine ==
    /\ pc = "is_mine"
    /\ \/ \E r \in IsMineResults :
            /\ calls' = Append(calls, Call("is_mine", PyStr(source), Ok(PyBool(r))))
            /\ pc' = IF r THEN "wallet_sign" ELSE "key_prompt"
            /\ raised' = raised
       \/ /\ calls' = Append(calls, Call("is_mine", PyStr(source), Err(WalletError)))
          /\ raised' = WalletError
          /\ pc' = "done"
    /\ UNCHANGED <<action, marketVars, mainVars>>
    /\ UNCHANGED <<unsigned_tx_hex, source, answer, private_key_wif, i, tx_hex,
                   signed_tx_hex, tx_hash, logged>>

\* Variant of WalletSign: a wallet error falls back to the private-key prompt.
WalletSign_FallsBack ==
    /\ pc = "wallet_sign"
    /\ \/ \E s \in WalletSignResults(unsigned_tx_hex.val) :
            /\ calls' = Append(calls, Call("sign_raw_transaction", unsigned_tx_hex, Ok(PyStr(s))))
            /\ signed_tx_hex' = PyStr(s)
            /\ pc' = "send"
       \/ /\ calls' = Append(calls, Call("sign_raw_transaction", unsigned_tx_hex, Err(WalletError)))
          /\ pc' = "key_prompt"
          /\ signed_tx_hex' = signed_tx_hex
    /\ UNCHANGED <<action, marketVars, mainVars>>
    /\ UNCHANGED <<unsigned_tx_hex, source, answer, private_key_wif, i, tx_hex,
                   tx_hash, logged, raised>>

\* Line 225: signed_tx_hex = wallet.sign_raw_transaction(unsigned_tx_hex)
WalletSign ==
    /\ pc = "wallet_sign"
    /\ \/ \E s \in WalletSignResults(unsigned_tx_hex.val) :
            /\ calls' = Append(calls, Call("sign_raw_transaction", unsigned_tx_hex, Ok(PyStr(s))))
            /\ signed_tx_hex' = PyStr(s)
            /\ pc' = "send"
            /\ raised' = raised
       \/ /\ calls' = Append(calls, Call("sign_raw_transaction", unsigned_tx_hex, Err(WalletError)))
          /\ raised' = WalletError
          /\ pc' = "done"
          /\ signed_tx_hex' = signed_tx_hex
    /\ UNCHANGED <<action, marketVars, mainVars>>
    /\ UNCHANGED <<unsigned_tx_hex, source, answer, private_key_wif, i, tx_hex,
                   tx_hash, logged>>

\* Lines 229-234: the key is rejected when empty or when a character is
\* not a Base58 digit.
InvalidKey(key) == key = <<>> \/ \E k \in 1..Len(key) : key[k] \notin b58_digits

\* Variant of KeyEntry: the key is handed to the tool without validation.
KeyEntry_NoValidation ==
    /\ pc = "key_prompt"
    /\ \E key \in Keys :
        /\ private_key_wif' = PyStr(key)
        /\ calls' = Append(calls, Call("input_key", PyStr(source), Ok(PyStr(key))))
    /\ i' = PyInt(0)
    /\ tx_hex' = unsigned_tx_hex
    /\ pc' = "tool_loop"
    /\ UNCHANGED <<action, marketVars, mainVars>>
    /\ UNCHANGED <<unsigned_tx_hex, source, answer, signed_tx_hex, tx_hash,
                   logged, raised>>

\* Lines 227-239: prompt for the private key, validate it, set up the loop.
KeyEntry ==
    /\ pc = "key_prompt"
    /\ \E key \in Keys :
        /\ private_key_wif' = PyStr(key)
        /\ calls' = Append(calls, Call("input_key", PyStr(source), Ok(PyStr(key))))
        /\ IF InvalidKey(key)
           THEN /\ raised' = RaiseTransactionError("invalid private key")
                /\ pc' = "done"
                /\ UNCHANGED <<i, tx_hex>>
           ELSE /\ i' = PyInt(0)
                /\ tx_hex' = unsigned_tx_hex
                /\ pc' = "tool_loop"
                /\ raised' = raised
    /\ UNCHANGED <<action, marketVars, mainVars>>
    /\ UNCHANGED <<unsigned_tx_hex, source, answer, signed_tx_hex, tx_hash,
                   logged>>

\* Lines 240-242: one iteration in which pybtctool exits with status 0.
\* i is not changed by the loop body.  The loop has no bound of its own;
\* the call log records the first MaxToolCalls successful invocations.
ToolSigns ==
    /\ pc = "tool_loop"
    /\ \E out \in ToolOutputs(unsigned_tx_hex.val) :
        /\ calls' = IF NumToolCalls < MaxToolCalls
                    THEN Append(calls, Call("pybtctool", <<tx_hex, i, private_key_wif>>, Ok(PyBytes(out))))
                    ELSE calls
        /\ tx_hex' = PyBytes(out)
    /\ pc' = "tool_loop"
    /\ UNCHANGED <<action, marketVars, mainVars>>
    /\ UNCHANGED <<unsigned_tx_hex, source, answer, private_key_wif, i,
                   signed_tx_hex, tx_hash, logged, raised>>

\* Lines 242-249: the iteration in which check_output raises: break, then
\* compare tx_hex with the unsigned transaction.
ToolFails ==
    /\ pc = "tool_loop"
    /\ calls' = Append(calls, Call("pybtctool", <<tx_hex, i, private_key_wif>>, Err(ToolError)))
    /\ IF ~PyEq(tx_hex, unsigned_tx_hex)
       THEN /\ signed_tx_hex' = DropLast(decode(tx_hex))
            /\ pc' = "send"
            /\ raised' = raised
       ELSE /\ raised' = RaiseTransactionError("Could not sign transaction with pybtctool.")
            /\ pc' = "done"
            /\ signed_tx_hex' = signed_tx_hex
    /\ UNCHANGED <<action, marketVars, mainVars>>
    /\ UNCHANGED <<unsigned_tx_hex, source, answer, private_key_wif, i, tx_hex,
                   tx_hash, logged>>

\* Variant of Send: the unsigned transaction is submitted.
Send_Unsigned ==
    /\ pc = "send"
    /\ \/ \E id \in TxIds :
            /\ calls' = Append(calls, Call("send_raw_transaction", unsigned_tx_hex, Ok(PyStr(id))))
            /\ tx_hash' = PyStr(id)
            /\ logged' = logged \o <<Log("signed", signed_tx_hex),
                                     Log("broadcasted", PyStr(id))>>
            /\ raised' = raised
       \/ /\ calls' = Append(calls, Call("send_raw_transaction", unsigned_tx_hex, Err(NetworkError)))
          /\ raised' = NetworkError
          /\ logged' = Append(logged, Log("signed", signed_tx_hex))
          /\ tx_hash' = tx_hash
    /\ pc' = "done"
    /\ UNCHANGED <<action, marketVars, mainVars>>
    /\ UNCHANGED <<unsigned_tx_hex, source, answer, private_key_wif, i, tx_hex,
                   signed_tx_hex>>

\* Variant of Send: a rejected submission is attempted a second time.
Send_Retries ==
    /\ pc = "send"
    /\ \/ \E id \in TxIds :
            /\ calls' = Append(calls, Call("send_raw_transaction", signed_tx_hex, Ok(PyStr(id))))
            /\ tx_hash' = PyStr(id)
            /\ logged' = logged \o <<Log("signed", signed_tx_hex),
                                     Log("broadcasted", PyStr(id))>>
            /\ raised' = raised
            /\ pc' = "done"
       \/ /\ calls' = Append(calls, Call("send_raw_transaction", signed_tx_hex, Err(NetworkError)))
          /\ logged' = Append(logged, Log("signed", signed_tx_hex))
          /\ tx_hash' = tx_hash
          /\ IF NumCalls("send_raw_transaction") = 0
             THEN pc' = "send" /\ raised' = raised
             ELSE pc' = "done" /\ raised' = NetworkError
    /\ UNCHANGED <<action, marketVars, mainVars>>
    /\ UNCHANGED <<unsigned_tx_hex, source, answer, private_key_wif, i, tx_hex,
                   signed_tx_hex>>

\* Lines 251-253: log the signed transaction, broadcast it, log the hash.
Send ==
    /\ pc = "send"
    /\ \/ \E id \in TxIds :
            /\ calls' = Append(calls, Call("send_raw_transaction", signed_tx_hex, Ok(PyStr(id))))
            /\ tx_hash' = PyStr(id)
            /\ logged' = logged \o <<Log("signed", signed_tx_hex),
                                     Log("broadcasted", PyStr(id))>>
            /\ raised' = raised
       \/ /\ calls' = Append(calls, Call("send_raw_transaction", signed_tx_hex, Err(NetworkError)))
          /\ raised' = NetworkError
          /\ logged' = Append(logged, Log("signed", signed_tx_hex))
          /\ tx_hash' = tx_hash
    /\ pc' = "done"
    /\ UNCHANGED <<action, marketVars, mainVars>>
    /\ UNCHANGED <<unsigned_tx_hex, source, answer, private_key_wif, i, tx_hex,
                   signed_tx_hex>>

\* ------------------------------------------------------------------------
\* market: the open-orders loop
\* ------------------------------------------------------------------------
MarketInit ==
    /\ npc = "idle"
    /\ give_filter \in (IF action = "market" THEN Filters ELSE {PyNone})
    /\ get_filter \in (IF action = "market" THEN Filters ELSE {PyNone})
    /\ order_match = PyNone
    /\ order = PyNone
    /\ bet = PyNone
    /\ row = NoRow
    /\ broadcasts = <<>>
    /\ clock = StartTime
    /\ examined = <<>>
    /\ seen_addresses = <<>>
    /\ table = <<>>

\* Lines 165-167: one pending order match is formatted and added.
MarketOrderMatch ==
    /\ npc = "matches"
    /\ \E m \in OrderMatches, results \in BlockResults :
        /\ order_match' = m
        /\ row' = [kind |-> "match", res |-> Ok(format_order_match(m, results))]
    /\ npc' = "matches"
    /\ UNCHANGED <<action, give_filter, get_filter, order, bet, feedVars>>
    /\ UNCHANGED <<signVars, mainVars>>

\* Lines 168-174: the matches table is printed and the open orders fetched.
MarketMatchesEnd ==
    /\ npc = "matches"
    /\ npc' = "orders"
    /\ order_match' = PyNone
    /\ row' = NoRow
    /\ UNCHANGED <<action, give_filter, get_filter, order, bet, feedVars>>
    /\ UNCHANGED <<signVars, mainVars>>

\* Line 176: for order in orders -- the next row of get_orders.
MarketNextOrder ==
    /\ npc = "orders"
    /\ \E o \in Orders : order' = o
    /\ row' = NoRow
    /\ npc' = "order"
    /\ UNCHANGED <<action, give_filter, get_filter, order_match, bet, feedVars>>
    /\ UNCHANGED <<signVars, mainVars>>

\* Lines 177-182: the loop body: skip a filtered order, else format it and
\* add the row.  An exception of format_order leaves market.
MarketOrder ==
    /\ npc = "order"
    /\ IF \/ Truthy(give_filter) /\ ~PyEq(PyStr(order.give_asset), give_filter)
          \/ Truthy(get_filter) /\ ~PyEq(PyStr(order.get_asset), get_filter)
       THEN /\ row' = [kind |-> "skipped", res |-> Ok(PyNone)]
            /\ npc' = "orders"
       ELSE \E results \in BlockResults :
                LET formatted == format_order(order, results)
                IN  /\ row' = [kind |-> IF formatted.ok THEN "row" ELSE "raised",
                                res |-> formatted]
                    /\ npc' = IF formatted.ok THEN "orders" ELSE "done"
    /\ UNCHANGED <<action, give_filter, get_filter, order_match, order, bet, feedVars>>
    /\ UNCHANGED <<signVars, mainVars>>

\* Lines 183-189: the orders table is printed and the open bets fetched.
MarketOrdersEnd ==
    /\ npc = "orders"
    /\ npc' = "bets"
    /\ order' = PyNone
    /\ row' = NoRow
    /\ UNCHANGED <<action, give_filter, get_filter, order_match, bet, feedVars>>
    /\ UNCHANGED <<signVars, mainVars>>

\* Line 191: for bet in bets -- the next row of get_bets.
MarketNextBet ==
    /\ npc = "bets"
    /\ \E b \in Bets : bet' = b
    /\ row' = NoRow
    /\ npc' = "bet"
    /\ UNCHANGED <<action, give_filter, get_filter, order_match, order, feedVars>>
    /\ UNCHANGED <<signVars, mainVars>>

\* Lines 192-193: the loop body: format the bet and add the row.  An
\* exception of format_bet leaves market.
MarketBet ==
    /\ npc = "bet"
    /\ \E results \in BlockResults :
        LET formatted == format_bet(bet, results)
        IN  /\ row' = [kind |-> IF formatted.ok THEN "bet" ELSE "bet_raised",
                        res |-> formatted]
            /\ npc' = IF formatted.ok THEN "bets" ELSE "done"
    /\ UNCHANGED <<action, give_filter, get_filter, order_match, order, bet, feedVars>>
    /\ UNCHANGED <<signVars, mainVars>>

\* Lines 194-201: the bets table is printed, the broadcasts are fetched
\* and the Feeds table and seen_addresses start empty.
MarketBetsEnd ==
    /\ npc = "bets"
    /\ npc' = "feeds"
    /\ bet' = PyNone
    /\ row' = NoRow
    /\ broadcasts' \in SeqsUpTo(Broadcasts, MaxBroadcasts)
    /\ examined' = <<>>
    /\ seen_addresses' = <<>>
    /\ table' = <<>>
    /\ UNCHANGED <<action, give_filter, get_filter, order_match, order, clock>>
    /\ UNCHANGED <<signVars, mainVars>>

InSeq(x, seq) == \E k \in 1..Len(seq) : seq[k] = x

\* Variant of MarketFeed: every broadcast of a new address is shown,
\* whatever its age.
MarketFeed_NoWindow ==
    /\ npc = "feeds"
    /\ Len(examined) < Len(broadcasts)
    /\ LET broadcast == broadcasts[Len(examined) + 1]
       IN  \E now \in {clock, clock + 1} :
            /\ clock' = now
            /\ examined' = Append(examined, now)
            /\ IF ~InSeq(broadcast.source, seen_addresses)
               THEN LET feed == format_feed(broadcast)
                    IN  /\ row' = [kind |-> IF feed.ok THEN "feed" ELSE "feed_raised", res |-> feed]
                        /\ table' = IF feed.ok THEN Append(table, feed.val) ELSE table
                        /\ seen_addresses' = IF feed.ok
                                             THEN Append(seen_addresses, broadcast.source)
                                             ELSE seen_addresses
                        /\ npc' = IF feed.ok THEN "feeds" ELSE "done"
               ELSE /\ row' = [kind |-> "skipped", res |-> Ok(PyNone)]
                    /\ UNCHANGED <<table, seen_addresses, npc>>
    /\ UNCHANGED <<action, give_filter, get_filter, order_match, order, bet, broadcasts>>
    /\ UNCHANGED <<signVars, mainVars>>

\* Variant of MarketFeed: every broadcast inside the window is shown, also
\* when its address was shown before.
MarketFeed_NoDedup ==
    /\ npc = "feeds"
    /\ Len(examined) < Len(broadcasts)
    /\ LET broadcast == broadcasts[Len(examined) + 1]
       IN  \E now \in {clock, clock + 1} :
            /\ clock' = now
            /\ examined' = Append(examined, now)
            /\ IF broadcast.timestamp + TWO_WEEKS < now
               THEN /\ row' = [kind |-> "skipped", res |-> Ok(PyNone)]
                    /\ UNCHANGED <<table, seen_addresses, npc>>
               ELSE LET feed == format_feed(broadcast)
                    IN  /\ row' = [kind |-> IF feed.ok THEN "feed" ELSE "feed_raised", res |-> feed]
                        /\ table' = IF feed.ok THEN Append(table, feed.val) ELSE table
                        /\ seen_addresses' = IF feed.ok
                                             THEN Append(seen_addresses, broadcast.source)
                                             ELSE seen_addresses
                        /\ npc' = IF feed.ok THEN "feeds" ELSE "done"
    /\ UNCHANGED <<action, give_filter, get_filter, order_match, order, bet, broadcasts>>
    /\ UNCHANGED <<signVars, mainVars>>

\* Lines 202-212: one iteration of the feeds loop.  time.time() is read in
\* each iteration, so the clock may have moved on since the last one.
MarketFeed ==
    /\ npc = "feeds"
    /\ Len(examined) < Len(broadcasts)
    /\ LET broadcast == broadcasts[Len(examined) + 1]
       IN  \E now \in {clock, clock + 1} :
            /\ clock' = now
            /\ examined' = Append(examined, now)
            /\ IF broadcast.timestamp + TWO_WEEKS < now
               THEN /\ row' = [kind |-> "skipped", res |-> Ok(PyNone)]
                    /\ UNCHANGED <<table, seen_addresses, npc>>
               ELSE IF ~InSeq(broadcast.source, seen_addresses)
               THEN LET feed == format_feed(broadcast)
                    IN  /\ row' = [kind |-> IF feed.ok THEN "feed" ELSE "feed_raised", res |-> feed]
                        /\ table' = IF feed.ok THEN Append(table, feed.val) ELSE table
                        /\ seen_addresses' = IF feed.ok
                                             THEN Append(seen_addresses, broadcast.source)
                                             ELSE seen_addresses
                        /\ npc' = IF feed.ok THEN "feeds" ELSE "done"
               ELSE /\ row' = [kind |-> "skipped", res |-> Ok(PyNone)]
                    /\ UNCHANGED <<table, seen_addresses, npc>>
    /\ UNCHANGED <<action, give_filter, get_filter, order_match, order, bet, broadcasts>>
    /\ UNCHANGED <<signVars, mainVars>>

\* Lines 213-214: the loop is over and the Feeds table is printed.
MarketFeedsEnd ==
    /\ npc = "feeds"
    /\ Len(examined) = Len(broadcasts)
    /\ npc' = "done"
    /\ UNCHANGED <<action, give_filter, get_filter, order_match, order, bet, row, feedVars>>
    /\ UNCHANGED <<signVars, mainVars>>


\* ------------------------------------------------------------------------
\* main
\* ------------------------------------------------------------------------
MainInit ==
    /\ mpc = "parsed"
    /\ help \in BOOLEAN
    /\ options \in OptionArgs
    /\ unsigned \in (IF action = "send" THEN BOOLEAN ELSE {FALSE})
    /\ arg_source \in (IF action = "send" THEN Addresses ELSE {<<>>})
    /\ cfg = ConfigUnset
    /\ main_raised = NoError
    /\ n_set_options = 0
    /\ unsigned_hex = PyNone

\* Lines 553-556: --help prints the help and exits.
MainHelp ==
    /\ mpc = "parsed"
    /\ help
    /\ mpc' = "exit"
    /\ UNCHANGED <<help, options, unsigned, arg_source, cfg, main_raised,
                   n_set_options, unsigned_hex>>
    /\ UNCHANGED <<action, marketVars, signVars>>

\* A variant that goes on to the action whatever set_options did.
MainSetOptions_Proceeds ==
    /\ mpc = "parsed"
    /\ ~help
    /\ LET r == set_options(options, cfg)
       IN  /\ cfg' = r.cfg
           /\ main_raised' = r.err
           /\ mpc' = "configured"
    /\ n_set_options' = n_set_options + 1
    /\ UNCHANGED <<help, options, unsigned, arg_source, unsigned_hex>>
    /\ UNCHANGED <<action, marketVars, signVars>>

\* Lines 558-568: set up logging, then set_options(...).  An exception of
\* set_options leaves main.
MainSetOptions ==
    /\ mpc = "parsed"
    /\ ~help
    /\ LET r == set_options(options, cfg)
       IN  /\ cfg' = r.cfg
           /\ main_raised' = r.err
           /\ mpc' = IF r.err = NoError THEN "configured" ELSE "exit"
    /\ n_set_options' = n_set_options + 1
    /\ UNCHANGED <<help, options, unsigned, arg_source, unsigned_hex>>
    /\ UNCHANGED <<action, marketVars, signVars>>

\* A variant that signs whether or not --unsigned was given.
MainMessage_IgnoresUnsigned ==
    /\ mpc = "configured"
    /\ action = "send"
    /\ \/ \E u \in UnsignedTxs :
            /\ unsigned_hex' = PyStr(u)
            /\ main_raised' = main_raised
            /\ pc' = "start"
            /\ unsigned_tx_hex' = PyStr(u)
            /\ source' = arg_source
            /\ mpc' = "sign_tx"
       \/ /\ main_raised' = ComposeError
          /\ mpc' = "exit"
          /\ UNCHANGED <<unsigned_hex, pc, unsigned_tx_hex, source>>
    /\ UNCHANGED <<help, options, unsigned, arg_source, cfg, n_set_options>>
    /\ UNCHANGED <<answer, private_key_wif, i, tx_hex, signed_tx_hex, tx_hash,
                   calls, logged, raised>>
    /\ UNCHANGED <<action, marketVars>>

\* Lines 571-574: a message action: compose the transaction and, unless
\* --unsigned was given, hand it to sign_tx with args.source.
MainMessage ==
    /\ mpc = "configured"
    /\ action = "send"
    /\ \/ \E u \in UnsignedTxs :
            /\ unsigned_hex' = PyStr(u)
            /\ main_raised' = main_raised
            /\ IF ~unsigned
               THEN /\ pc' = "start"
                    /\ unsigned_tx_hex' = PyStr(u)
                    /\ source' = arg_source
                    /\ mpc' = "sign_tx"
               ELSE /\ mpc' = "exit"
                    /\ UNCHANGED <<pc, unsigned_tx_hex, source>>
       \/ /\ main_raised' = ComposeError
          /\ mpc' = "exit"
          /\ UNCHANGED <<unsigned_hex, pc, unsigned_tx_hex, source>>
    /\ UNCHANGED <<help, options, unsigned, arg_source, cfg, n_set_options>>
    /\ UNCHANGED <<answer, private_key_wif, i, tx_hex, signed_tx_hex, tx_hash,
                   calls, logged, raised>>
    /\ UNCHANGED <<action, marketVars>>

\* Line 651: elif args.action == 'market': market(args.give_asset, args.get_asset)
MainMarket ==
    /\ mpc = "configured"
    /\ action = "market"
    /\ mpc' = "market"
    /\ npc' = "matches"
    /\ UNCHANGED <<help, options, unsigned, arg_source, cfg, main_raised,
                   n_set_options, unsigned_hex>>
    /\ UNCHANGED <<action, give_filter, get_filter, order_match, order, bet, row,
                   feedVars, signVars>>

vars == <<action, marketVars, signVars, mainVars>>

Init ==
    /\ action \in {"send", "market"}
    /\ MainInit
    /\ SignInit
    /\ MarketInit
Next ==
    \/ MainHelp
    \/ MainSetOptions
    \/ MainMessage
    \/ MainMarket
    \/ MultisigCheck
    \/ Confirm
    \/ IsMine
    \/ WalletSign
    \/ KeyEntry
    \/ ToolSigns
    \/ ToolFails
    \/ Send
    \/ MarketOrderMatch
    \/ MarketMatchesEnd
    \/ MarketNextOrder
    \/ MarketOrder
    \/ MarketOrdersEnd
    \/ MarketNextBet
    \/ MarketBet
    \/ MarketBetsEnd
    \/ MarketFeed
    \/ MarketFeedsEnd
Spec == Init /\ [][Next]_vars

\* The runs of main for a message action: lines 558-574 and sign_tx.
SendInit ==
    /\ Init
    /\ action = "send"
    /\ ~help
SendNext ==
    \/ MainSetOptions
    \/ MainMessage
    \/ MultisigCheck
    \/ Confirm
    \/ IsMine
    \/ WalletSign
    \/ KeyEntry
    \/ ToolSigns
    \/ ToolFails
    \/ Send
\* The process is sequential and every collaborator answers every call, so
\* a step that can be taken is eventually taken.
LiveSpec == SendInit /\ [][SendNext]_vars /\ WF_vars(SendNext)

\* ------------------------------------------------------------------------
\* Outcome of a sign_tx request, read from how sign_tx ended
\* ------------------------------------------------------------------------
HasLog(msg) == \E k \in 1..Len(logged) : logged[k].msg = msg
Done == pc = "done"
Failed == Done /\ raised # NoError
DeferredToManualMultisig == Done /\ raised = NoError /\ HasLog("multisig")
Broadcast(id) ==
    /\ Done /\ raised = NoError
    /\ \E k \in 1..Len(logged) : logged[k] = Log("broadcasted", id)
Declined ==
    /\ Done /\ raised = NoError
    /\ ~HasLog("multisig") /\ ~HasLog("broadcasted")

CallsOf(op) == {k \in 1..Len(calls) : calls[k].op = op}
Returned(op, v) == \E k \in CallsOf(op) : calls[k].res = Ok(v)
Threw(op) == \E k \in CallsOf(op) : ~calls[k].res.ok
TransactionError(msg) == [type |-> "TransactionError", msg |-> msg]

\* ------------------------------------------------------------------------
\* Claims about sign_tx
\* ------------------------------------------------------------------------

\* C1: for a multi-signature source the request ends as deferred to manual
\* multisig, and the confirmation prompt, wallet.is_mine,
\* wallet.sign_raw_transaction, the external signing tool and
\* wallet.send_raw_transaction are never invoked.
C1_MultisigDeferred ==
    is_multisig(source) =>
        /\ calls = <<>>
        /\ pc \in {"idle", "start", "done"}
        /\ Done => DeferredToManualMultisig
C1_Witness == is_multisig(source) /\ Done

\* C2: for a single-signature source, any answer other than 'y' (the empty
\* answer included) ends the request as declined: no wallet call, no key
\* prompt, no signing tool, no broadcast, and no local of sign_tx is set.
C2_DeclineHasNoEffect ==
    (~is_multisig(source) /\ answer.type = "str" /\ answer.val # <<"y">>) =>
        /\ Declined
        /\ Len(calls) = 1 /\ calls[1].op = "input_confirm"
        /\ private_key_wif = PyNone /\ i = PyNone /\ tx_hex = PyNone
        /\ signed_tx_hex = PyNone /\ tx_hash = PyNone
C2_Witness == ~is_multisig(source) /\ answer = PyStr(<<>>) /\ Done

\* C3: when the source is wallet-owned and wallet.sign_raw_transaction
\* reports an error, the request ends as failed; the private-key prompt and
\* the external signing tool are never reached and
\* wallet.send_raw_transaction is never invoked.
C3_WalletErrorIsFinal ==
    (Returned("is_mine", PyBool(TRUE)) /\ Threw("sign_raw_transaction")) =>
        /\ Failed
        /\ raised = WalletError
        /\ ~Invoked("input_key")
        /\ ~Invoked("pybtctool")
        /\ ~Invoked("send_raw_transaction")
C3_Witness ==
    Returned("is_mine", PyBool(TRUE)) /\ Threw("sign_raw_transaction") /\ Done

\* C4: single-signature wallet-owned source, the operator confirms,
\* sign_raw_transaction succeeds and send_raw_transaction returns an
\* identifier: the request ends as Broadcast with exactly that identifier
\* and what was submitted is exactly what sign_raw_transaction returned.
C4_WalletPathBroadcasts ==
    \A k \in CallsOf("send_raw_transaction") :
        (Returned("is_mine", PyBool(TRUE)) /\ calls[k].res.ok) =>
            /\ ~is_multisig(source) /\ answer = PyStr(<<"y">>)
            /\ Broadcast(calls[k].res.val)
            /\ \A id \in TxIds : Broadcast(PyStr(id)) => PyStr(id) = calls[k].res.val
            /\ Returned("sign_raw_transaction", calls[k].arg)
C4_Witness ==
    /\ Returned("is_mine", PyBool(TRUE))
    /\ Returned("send_raw_transaction", PyStr(<<"a", "b", "c", "1", "2", "3">>))
    /\ Broadcast(PyStr(<<"a", "b", "c", "1", "2", "3">>))

\* C5: on the external-key path an empty key, or a key with a character
\* outside the Base58 alphabet, ends the request with the transaction error
\* 'invalid private key'; neither the signing tool nor
\* wallet.send_raw_transaction is invoked.
C5_InvalidKeyRejected ==
    (private_key_wif.type = "str" /\ InvalidKey(private_key_wif.val)) =>
        /\ Done
        /\ raised = TransactionError("invalid private key")
        /\ ~Invoked("pybtctool")
        /\ ~Invoked("send_raw_transaction")

HasBang(key) == \E k \in 1..Len(key) : key[k] = "!"
BangKeyEntered ==
    /\ Returned("is_mine", PyBool(FALSE))
    /\ private_key_wif.type = "str" /\ HasBang(private_key_wif.val)

\* C6 as stated: a key containing '!' for a source that is not wallet-owned
\* gives Failed{InvalidPrivateKey}, and is_mine, sign_raw_transaction and
\* send_raw_transaction are not invoked at any point of the request.
C6_Original ==
    BangKeyEntered =>
        /\ Done
        /\ raised = TransactionError("invalid private key")
        /\ ~Invoked("is_mine")
        /\ ~Invoked("sign_raw_transaction")
        /\ ~Invoked("send_raw_transaction")

\* C6 amended: a key containing '!' for a source that is not wallet-owned
\* ends the request as failed at the key check; wallet.is_mine has been
\* invoked exactly once (it is what told that the source is not
\* wallet-owned), and sign_raw_transaction, the signing tool and
\* send_raw_transaction are never invoked.
C6_BangKeyFails ==
    BangKeyEntered =>
        /\ Failed
        /\ calls[Len(calls)].op = "input_key"
        /\ NumCalls("is_mine") = 1
        /\ ~Invoked("sign_raw_transaction")
        /\ ~Invoked("pybtctool")
        /\ ~Invoked("send_raw_transaction")
C6_Witness == BangKeyEntered /\ Done

\* C7: on the external-key path, when what the signing loop leaves in
\* tx_hex has the content of the unsigned transaction, the request ends
\* with the transaction error 'Could not sign transaction with pybtctool.'
\* and send_raw_transaction is never invoked, whether the tool failed on
\* its first invocation or succeeded and returned the transaction unchanged.
C7_UnchangedNeverSent ==
    (Threw("pybtctool") /\ tx_hex.val = unsigned_tx_hex.val) =>
        /\ Done
        /\ raised = TransactionError("Could not sign transaction with pybtctool.")
        /\ ~Invoked("send_raw_transaction")

\* C8: nothing is retried: sign_raw_transaction and send_raw_transaction
\* are each invoked at most once, and a failing send_raw_transaction ends
\* the request as failed with the collaborator's error unchanged.
C8_NoRetry ==
    /\ NumCalls("sign_raw_transaction") <= 1
    /\ NumCalls("send_raw_transaction") <= 1
    /\ \A k \in CallsOf("send_raw_transaction") :
            ~calls[k].res.ok => (Failed /\ raised = calls[k].res.err /\ k = Len(calls))
C8_Witness == Threw("send_raw_transaction") /\ Done

\* ------------------------------------------------------------------------
\* Exact arithmetic on digit sequences, used to state the claims about
\* prices independently of how the price is computed
\* ------------------------------------------------------------------------
RECURSIVE AddRec(_, _, _, _, _)
AddRec(x, y, k, carry, acc) ==
    \* x and y have the same length; k runs from the last digit to the first
    IF k = 0 THEN (IF carry = 0 THEN acc ELSE <<carry>> \o acc)
    ELSE AddRec(x, y, k - 1, (x[k] + y[k] + carry) \div 10,
                <<(x[k] + y[k] + carry) % 10>> \o acc)
BigAdd(x, y) ==
    LET n == IF Len(x) > Len(y) THEN Len(x) ELSE Len(y)
    IN  StripLeading(AddRec(Zeros(n - Len(x)) \o x, Zeros(n - Len(y)) \o y, n, 0, <<>>))

\* Column c (0 = least significant) of the long multiplication x * y.
RECURSIVE ColumnSum(_, _, _, _)
ColumnSum(x, y, c, a) ==
    IF a > c \/ a >= Len(x) THEN 0
    ELSE (IF c - a < Len(y) THEN x[Len(x) - a] * y[Len(y) - (c - a)] ELSE 0)
         + ColumnSum(x, y, c, a + 1)

RECURSIVE CarryRec(_, _, _, _)
CarryRec(cols, c, carry, acc) ==
    IF c \notin DOMAIN cols
    THEN (IF carry = 0 THEN acc ELSE DigitsOf(carry) \o acc)
    ELSE CarryRec(cols, c + 1, (cols[c] + carry) \div 10,
                  <<(cols[c] + carry) % 10>> \o acc)
BigMul(x, y) ==
    LET cols == [c \in 0..(Len(x) + Len(y) - 2) |-> ColumnSum(x, y, c, 0)]
    IN  StripLeading(CarryRec(cols, 0, 0, <<>>))

RECURSIVE LexLe(_, _)
LexLe(x, y) ==
    IF x = <<>> THEN TRUE
    ELSE IF Head(x) # Head(y) THEN Head(x) < Head(y)
    ELSE LexLe(Tail(x), Tail(y))
BigLe(x, y) ==
    LET a == StripLeading(x)
        b == StripLeading(y)
    IN  IF Len(a) # Len(b) THEN Len(a) < Len(b) ELSE LexLe(a, b)

RECURSIVE Normalize(_)
Normalize(d) ==
    IF IsZeroDigits(d.digits) THEN Dec(<<0>>, 0)
    ELSE IF d.digits[Len(d.digits)] = 0
         THEN Normalize(Dec(SubSeq(d.digits, 1, Len(d.digits) - 1), d.exp + 1))
         ELSE d
NumEq(p, q) == Normalize(p) = Normalize(q)
DecProduct(p, q) == Dec(BigMul(p.digits, q.digits), p.exp + q.exp)
OneDec == Dec(<<1>>, 0)
HalfDec == Dec(<<5>>, -1)

\* p is a / b, exactly, or rounded to DecimalPrec significant digits:
\* |p * b - a| <= b * ulp(p) / 2.
IsQuotientOf(p, a, b) ==
    LET X == BigMul(p.digits, DigitsOf(b)) \o Zeros(IF p.exp > 0 THEN p.exp ELSE 0)
        Y == DigitsOf(a) \o Zeros(IF p.exp < 0 THEN -p.exp ELSE 0)
        ulp == <<1>> \o Zeros(IF p.exp > 0 THEN p.exp ELSE 0)
        slack == BigMul(DigitsOf(b), ulp)
    IN  /\ \/ StripLeading(X) = StripLeading(Y)
           \/ Len(p.digits) = DecimalPrec /\ p.digits[1] # 0
        /\ Len(p.digits) <= DecimalPrec
        /\ BigLe(BigAdd(X, X), BigAdd(BigAdd(Y, Y), slack))
        /\ BigLe(BigAdd(Y, Y), BigAdd(BigAdd(X, X), slack))

Ask == <<" ", "a", "s", "k">>
Bid == <<" ", "b", "i", "d">>

\* ------------------------------------------------------------------------
\* Claims about format_order
\* ------------------------------------------------------------------------

\* C9: format_order orients the price by comparing the asset identifiers as
\* strings: when get_asset < give_asset the price is get_quantity /
\* give_quantity and the label is get/give ask; otherwise (equal identifiers
\* included) the price is give_quantity / get_quantity and the label is
\* give/get bid.  Giving 100 for 50 with get_asset < give_asset is priced
\* 0.5 and labelled ask.
C9_PriceOrientation ==
    row.kind = "row" =>
        LET e == row.res.val
        IN  /\ StrLt(order.get_asset, order.give_asset) =>
                /\ IsQuotientOf(e.price, order.get_quantity, order.give_quantity)
                /\ e.price_assets = order.get_asset \o <<"/">> \o order.give_asset \o Ask
            /\ ~StrLt(order.get_asset, order.give_asset) =>
                /\ IsQuotientOf(e.price, order.give_quantity, order.get_quantity)
                /\ e.price_assets = order.give_asset \o <<"/">> \o order.get_asset \o Bid
            /\ ( /\ order.give_quantity = 100 /\ order.get_quantity = 50
                 /\ StrLt(order.get_asset, order.give_asset) ) =>
                /\ e.price = HalfDec
                /\ SubSeq(e.price_assets, Len(e.price_assets) - 3, Len(e.price_assets)) = Ask
C9_Witness ==
    /\ row.kind = "row"
    /\ order.give_quantity = 100 /\ order.get_quantity = 50
    /\ order.give_asset = XCP /\ order.get_asset = BTC
    /\ row.res.val.price = HalfDec

\* The order that gives what o gets and gets what o gives.
Mirror(o) ==
    [o EXCEPT !.give_asset = o.get_asset, !.get_asset = o.give_asset,
              !.give_quantity = o.get_quantity, !.get_quantity = o.give_quantity]

\* An order giving A for B with A < B and positive quantities was formatted.
GivesFirstAsset ==
    /\ row.kind = "row"
    /\ StrLt(order.give_asset, order.get_asset)
    /\ order.give_quantity > 0 /\ order.get_quantity > 0

\* C10 as stated: an order giving A for B (A < B) is labelled A/B bid, its
\* mirror is labelled A/B ask, and the product of the two prices is 1.
C10_Original ==
    GivesFirstAsset =>
        LET e == row.res.val
            m == format_order(Mirror(order), <<>>).val
        IN  /\ e.price_assets = order.give_asset \o <<"/">> \o order.get_asset \o Bid
            /\ m.price_assets = order.give_asset \o <<"/">> \o order.get_asset \o Ask
            /\ NumEq(DecProduct(e.price, m.price), OneDec)

\* C10 amended: an order giving A for B (A < B) is labelled A/B bid, its
\* mirror is labelled A/B ask, and the two prices are equal: both are the
\* quantity of A divided by the quantity of B (not reciprocals).
C10_MirrorSamePrice ==
    GivesFirstAsset =>
        LET e == row.res.val
            m == format_order(Mirror(order), <<>>).val
        IN  /\ e.price_assets = order.give_asset \o <<"/">> \o order.get_asset \o Bid
            /\ m.price_assets = order.give_asset \o <<"/">> \o order.get_asset \o Ask
            /\ m.price = e.price
            /\ IsQuotientOf(e.price, order.give_quantity, order.get_quantity)
C10_Witness ==
    /\ GivesFirstAsset
    /\ order.give_quantity = 3 /\ order.get_quantity = 50
    /\ row.res.val.price = Dec(<<6>>, -2)

\* ------------------------------------------------------------------------
\* main and set_options
\* ------------------------------------------------------------------------
\* set_options returned without raising.
SetOptionsCompleted ==
    /\ n_set_options = 1
    /\ main_raised \in {NoError, ComposeError}
\* set_options raised.
SetOptionsRaised ==
    /\ n_set_options = 1
    /\ main_raised \notin {NoError, ComposeError}
Network(testnet) == IF testnet THEN "TESTNET" ELSE "MAINNET"
\* The constant a bundle field must hold for a pair of flags: the name of
\* the field, then the network, then _TESTCOIN for the three fields that
\* have a testcoin variant.
ExpectedBundle(testnet, testcoin) ==
    [f \in BundleFields |->
        PyConst(f \o "_" \o Network(testnet) \o
                (IF testcoin /\ f \in {"BLOCK_FIRST", "BURN_START", "BURN_END"}
                 THEN "_TESTCOIN" ELSE ""))]
Bundle == [f \in BundleFields |-> cfg[f]]

\* C14: after set_options has completed, the six network parameters are the
\* ones of the branch for (testnet, testcoin): MAGIC_BYTES, ADDRESSVERSION
\* and UNSPENDABLE named by testnet alone, BLOCK_FIRST, BURN_START and
\* BURN_END by both flags, none taken from another combination.
C14_BundleIsFunctionOfFlags ==
    SetOptionsCompleted =>
        Bundle = ExpectedBundle(options.testnet, options.testcoin)
C14_Witness ==
    /\ SetOptionsCompleted
    /\ options.testnet /\ ~options.testcoin
    /\ cfg.BURN_END = PyConst("BURN_END_TESTNET")
    /\ cfg.ADDRESSVERSION = PyConst("ADDRESSVERSION_TESTNET")

\* The message was composed.
Composed == unsigned_hex # PyNone
\* sign_tx has been entered.
SignTxInvoked == pc # "idle"

\* C15: with --unsigned, sign_tx is never entered, so no wallet, tool or
\* broadcast call is made; without it, once the message is composed sign_tx
\* has been entered with the composed transaction and args.source, and it
\* is only ever entered from main, once.
C15_UnsignedSkipsSigning ==
    /\ [](unsigned => ~SignTxInvoked /\ calls = <<>> /\ tx_hash = PyNone)
    /\ [](~unsigned /\ Composed =>
            /\ SignTxInvoked
            /\ unsigned_tx_hex = unsigned_hex
            /\ source = arg_source)
    /\ [][pc' = "start" => pc = "idle" /\ mpc = "configured"]_vars
C15_Witness ==
    /\ unsigned
    /\ Composed
    /\ mpc = "exit"
    /\ ~SignTxInvoked
C15_WitnessSigned ==
    /\ ~unsigned
    /\ Composed
    /\ Done

\* Something of an action has happened: a transaction was composed, sign_tx
\* or market was entered, or a collaborator was called.
ActionStarted ==
    \/ mpc \in {"sign_tx", "market"}
    \/ Composed
    \/ pc # "idle"
    \/ npc # "idle"
    \/ calls # <<>>

\* C20: set_options is called at most once, and exactly once before
\* anything of an action happens; when it raised, nothing of an action ever
\* happens; and once an action has started the network parameters are not
\* assigned again.
C20_ConfiguredOnceBeforeAction ==
    /\ [](n_set_options <= 1)
    /\ [](ActionStarted => SetOptionsCompleted)
    /\ [](SetOptionsRaised => ~ActionStarted /\ mpc = "exit")
    /\ [][ActionStarted => cfg' = cfg]_vars
C20_Witness ==
    /\ SetOptionsRaised
    /\ main_raised = ConfigurationError("wallet RPC password not set")
    /\ cfg.WALLET_PORT # PyNone
    /\ cfg.MAGIC_BYTES = PyNone

\* ------------------------------------------------------------------------
\* The external signing loop
\* ------------------------------------------------------------------------
IsToolCall(c) == c.op = "pybtctool"
\* The invocations of the external tool, in order.
ToolCalls == SelectSeq(calls, IsToolCall)

\* C16: the j-th invocation of the external tool is given input index
\* j - 1 and the output of the invocation before it, and only the last
\* invocation may have failed; so no index is given twice.
C16_SuccessiveIndices ==
    \A j \in 1..Len(ToolCalls) :
        /\ ToolCalls[j].arg[2] = PyInt(j - 1)
        /\ j > 1 => ToolCalls[j].arg[1] = ToolCalls[j - 1].res.val
        /\ j < Len(ToolCalls) => ToolCalls[j].res.ok

\* The outcomes of a sign_tx request.
Outcomes ==
    {o \in {"deferred", "declined", "broadcast", "failed"} :
        \/ o = "deferred" /\ DeferredToManualMultisig
        \/ o = "declined" /\ Declined
        \/ o = "broadcast" /\ \E id \in TxIds : Broadcast(PyStr(id))
        \/ o = "failed" /\ Failed}

\* C17: every sign_tx request that is started eventually ends, with
\* exactly one of the four outcomes.
C17_Terminates ==
    /\ SignTxInvoked ~> Done
    /\ [](Done => Cardinality(Outcomes) = 1)
\* The safety half alone: a request that has ended has exactly one outcome.
C17_OneOutcome == Done => Cardinality(Outcomes) = 1

\* ------------------------------------------------------------------------
\* Claims about format_bet, format_feed and format_order_match
\* ------------------------------------------------------------------------
\* format_bet has just returned an entry for bet.
BetFormatted == npc = "bets" /\ row.kind = "bet"

\* C12: the entry of a bet has no leverage exactly when the raw leverage is
\* 0 and otherwise the raw leverage divided by 5040; it has no target value
\* exactly when the raw target value is 0 and otherwise the raw value.
C12_BetSentinels ==
    BetFormatted =>
        LET e == row.res.val
        IN  /\ e.leverage = PyNone <=> bet.leverage = 0
            /\ bet.leverage # 0 =>
                /\ e.leverage.type = "Decimal"
                /\ IsQuotientOf(e.leverage.val, bet.leverage, 5040)
            /\ e.target_value = PyNone <=> bet.target_value = 0
            /\ bet.target_value # 0 => e.target_value = PyInt(bet.target_value)
C12_Witness ==
    /\ BetFormatted
    /\ bet.leverage = 7560 /\ bet.target_value = 0
    /\ row.res.val.leverage.val = Dec(<<1, 5>>, -1)
    /\ row.res.val.target_value = PyNone
C12_WitnessNoLeverage ==
    /\ BetFormatted
    /\ bet.leverage = 0 /\ bet.target_value = 7
    /\ row.res.val.leverage = PyNone
    /\ row.res.val.target_value = PyInt(7)

\* format_order_match has just returned an entry for order_match.
MatchFormatted == npc = "matches" /\ row.kind = "match"
Swapped(m) == [m EXCEPT !.tx0_hash = m.tx1_hash, !.tx1_hash = m.tx0_hash]
IsPrefix(p, seq) == Len(p) <= Len(seq) /\ SubSeq(seq, 1, Len(p)) = p
IsSuffix(p, seq) == Len(p) <= Len(seq) /\ SubSeq(seq, Len(seq) - Len(p) + 1, Len(seq)) = p

C19_NormalizerNeverFails ==
    row.kind \notin {"raised", "bet_raised", "feed_raised"}
\* format_feed itself yields an entry for every broadcast.
C19_FeedNeverFails == row.kind # "feed_raised"

\* ------------------------------------------------------------------------
\* Claims about the feed digest of market
\* ------------------------------------------------------------------------
\* The k-th broadcast was inside the two-week window when the loop looked
\* at it: its timestamp is at least the time then read minus 1,209,600.
InWindow(k) == broadcasts[k].timestamp >= examined[k] - 1209600
\* The broadcasts of address a looked at so far that were inside the window.
Recent(a) == {k \in 1..Len(examined) : broadcasts[k].source = a /\ InWindow(k)}
EntriesOf(a) == {j \in 1..Len(table) : table[j].source = a}
Min(S) == CHOOSE x \in S : \A y \in S : x <= y
Max(S) == CHOOSE x \in S : \A y \in S : x >= y
FeedsDone == npc = "done" /\ Len(broadcasts) > 0 /\ Len(examined) = Len(broadcasts)

\* C11: the Feeds table has one entry for each address with a broadcast
\* inside the window and none for any other address, and every entry comes
\* from a broadcast inside the window: a broadcast older than the window
\* never appears, even as the only broadcast of its address.
C11_OneRecentEntryPerAddress ==
    /\ \A a \in FeedSources :
          Cardinality(EntriesOf(a)) = IF Recent(a) # {} THEN 1 ELSE 0
    /\ \A j \in 1..Len(table) :
          \E k \in Recent(table[j].source) :
              table[j].timestamp = isodt(broadcasts[k].timestamp)
C11_Witness ==
    /\ FeedsDone
    /\ Len(broadcasts) = 2
    /\ broadcasts[1].source = <<"A">> /\ ~InWindow(1)
    /\ broadcasts[2].source = <<"B">> /\ InWindow(2)
    /\ Len(table) = 1
    /\ table[1].source = <<"B">>
C11_WitnessTwoRecent ==
    /\ FeedsDone
    /\ Len(broadcasts) = 2
    /\ broadcasts[1].source = <<"A">> /\ InWindow(1)
    /\ broadcasts[2].source = <<"A">> /\ InWindow(2)
    /\ broadcasts[1] # broadcasts[2]
    /\ Len(table) = 1

\* The broadcasts were delivered newest first.
Descending ==
    \A k, l \in 1..Len(broadcasts) :
        k < l => broadcasts[k].timestamp >= broadcasts[l].timestamp
TimeOf(entry) == entry.timestamp.iso

====
